---------------------------- MODULE Spec2Model ----------------------------
(***************************************************************************)
(* The rSAS solver of src/rsas/_rsas.pyx: solve (input checking) and       *)
(* _solve_RK4 (the Runge-Kutta integrator of age-ranked storage).          *)
(*                                                                         *)
(* float64 values are modelled as exact rationals <<num, den>> in lowest   *)
(* terms with den > 0, so that "zero within tolerance" becomes "zero".     *)
(* Arrays are functions on 0..len-1, indexed as in the source.             *)
(***************************************************************************)
EXTENDS Integers, Sequences, FiniteSets, TLC

(***************************************************************************)
(* Bounds of the model.                                                    *)
(***************************************************************************)
\* longest inflow timeseries len(J)
MaxT == 2
\* largest n_substeps
MaxSub == 2
\* largest max_age = len(ST_init) - 1
MaxAge == 2

(***************************************************************************)
(* Exact arithmetic standing for np.float64.                               *)
(***************************************************************************)
Abs(x) == IF x < 0 THEN -x ELSE x

RECURSIVE Gcd(_, _)
Gcd(a, b) == IF b = 0 THEN a ELSE Gcd(b, a % b)

Rat(n, d) ==
    LET s == IF d < 0 THEN -1 ELSE 1
        g == Gcd(Abs(n), Abs(d))
    IN  IF n = 0 THEN <<0, 1>> ELSE <<(s * n) \div g, (s * d) \div g>>

Zero == <<0, 1>>
One == <<1, 1>>
FromInt(n) == <<n, 1>>

RAdd(x, y) ==
    IF x[1] = 0 THEN y
    ELSE IF y[1] = 0 THEN x
    ELSE LET g == Gcd(x[2], y[2])
         IN  Rat(x[1] * (y[2] \div g) + y[1] * (x[2] \div g), (x[2] \div g) * y[2])
RNeg(x) == <<-x[1], x[2]>>
RSub(x, y) == RAdd(x, RNeg(y))
RMul(x, y) ==
    IF x[1] = 0 \/ y[1] = 0 THEN Zero
    ELSE LET g1 == Gcd(Abs(x[1]), y[2])
             g2 == Gcd(Abs(y[1]), x[2])
         IN  <<(x[1] \div g1) * (y[1] \div g2), (x[2] \div g2) * (y[2] \div g1)>>
\* division by zero is guarded at every call site (np.where, Q > 0)
RDiv(x, y) ==
    IF y[1] < 0 THEN RMul(x, <<-y[2], -y[1]>>) ELSE RMul(x, <<y[2], y[1]>>)
RLe(x, y) == RAdd(x, RNeg(y))[1] <= 0
RLt(x, y) == RAdd(x, RNeg(y))[1] < 0
RPos(x) == x[1] > 0
RIsZero(x) == x[1] = 0

\* cdef inline float64_max / np.maximum
float64_max(a, b) == IF RLe(b, a) THEN a ELSE b
\* cdef inline float64_min
float64_min(a, b) == IF RLe(a, b) THEN a ELSE b

\* sum of f[lo..hi] (np.sum / np.dot over one axis)
RECURSIVE RSum(_, _, _)
RSum(f, lo, hi) == IF lo > hi THEN Zero ELSE RAdd(f[lo], RSum(f, lo + 1, hi))

\* Python's None, for an array argument
None == <<>>
\* an argument that solve tiles by its rank: the rank and the data
NoArray == [ndim |-> 0, a |-> <<>>]


(***************************************************************************)
(* Arrays.                                                                 *)
(***************************************************************************)
\* a Python list / ndarray literal, 0-based
Arr(s) == [j \in 0..(Len(s) - 1) |-> s[j + 1]]
\* len(a) / a.shape[0]
ALen(a) == Cardinality(DOMAIN a)
\* np.zeros(len)
Zeros(len) == [j \in 0..(len - 1) |-> Zero]
\* np.zeros((len, w))
Zeros2(len, w) == [j \in 0..(len - 1) |-> Zeros(w)]
\* np.zeros((len, w, d))
Zeros3(len, w, d) == [j \in 0..(len - 1) |-> Zeros2(w, d)]
\* np.diff(a) of a 1-D array of length len
Diff(a, len) == [j \in 0..(len - 2) |-> RSub(a[j + 1], a[j])]
\* np.diff(a, axis=0) of a len x w array
Diff2(a, len, w) ==
    [j \in 0..(len - 2) |-> [q \in 0..(w - 1) |-> RSub(a[j + 1][q], a[j][q])]]

VARIABLES
    \* the arguments of solve
    J, Q, rSAS_fun, ST_init, dt, n_substeps, full_outputs,
    CS_init, C_J, alpha, k1, C_eq, C_old,
    \* the intermediate solutions of _solve_RK4
    STn, STp, STt, sTt, sTn, PQ1, PQ2, PQ3, PQ4, PQn, pQt, pQn,
    mQ1, mQ2, mQ3, mQ4, mR1, mR2, mR3, mR4, mQn, mRn, mSp, mSn, mSt,
    \* the outputs
    C_Q, ST, PQ, WaterBalance, MS, MQ, MR, SoluteBalance, result,
    \* the loop indices, the position in the code, the exception raised
    i, k, pc, err,
    \* history: pQn and PQn of each substep of the current timestep
    pQn_k, PQn_k,
    \* history: the cdf_i calls made and the storage profiles written, in order
    queries

inputs == <<J, Q, rSAS_fun, ST_init, dt, n_substeps, full_outputs,
            CS_init, C_J, alpha, k1, C_eq, C_old>>
water == <<STn, STp, STt, sTt, sTn, PQ1, PQ2, PQ3, PQ4, PQn, pQt, pQn>>
solute == <<mQ1, mQ2, mQ3, mQ4, mR1, mR2, mR3, mR4, mQn, mRn, mSp, mSn, mSt>>
outputs == <<C_Q, ST, PQ, WaterBalance, MS, MQ, MR, SoluteBalance, result>>
history == <<pQn_k, PQn_k>>
vars == <<inputs, water, solute, outputs, i, k, pc, err, history, queries>>

(***************************************************************************)
(* Lengths (lines 292-301).                                                *)
(***************************************************************************)
numflux == ALen(Q[0])
timeseries_length == ALen(J)
max_age == ALen(ST_init) - 1
M == max_age * n_substeps
h == RDiv(dt, FromInt(n_substeps))
numsol == IF C_J # None THEN ALen(C_J[0]) ELSE 0
\* an exception of type exc raised in function fn
Raised(exc, fn) == [exc |-> exc, fn |-> fn]
NoError == [exc |-> "none", fn |-> "none"]
\* _solve_RK4 is compiled with boundscheck(False) and wraparound(False)
\* (lines 243-244) and declares neither q nor s.  Where the build keeps them
\* Python objects, a bad subscript raises exc; where it infers C integers for
\* them, the read of a missing buffer or past its end is not checked, and the
\* process is lost.  Either build is possible.
Unchecked(exc) ==
    {Raised(exc, "_solve_RK4"), Raised("SegmentationFault", "_solve_RK4")}

\* history: the storage profile S that initialization ("commit", line 349),
\* the trial update of a stage ("trial", lines 381, 396, 411) or the final
\* update of a substep ("commit", line 433) has written
Written(kind, stage, S) ==
    <<[kind |-> kind, i |-> i, k |-> k, stage |-> stage, q |-> -1, S |-> S]>>

\* the calls of a stage with the time index of the end of the timestep
Queried_end_of_step(stage, S) ==
    [p \in 1..numflux |->
        [kind |-> "query", i |-> IF stage = 4 THEN i + 1 ELSE i, k |-> k,
         stage |-> stage, q |-> p - 1, S |-> S]]

\* history: the calls rSAS_fun[q].cdf_i(S, i) for q in range(numflux) of one
\* stage (lines 374-375, 387-388, 402-403, 417-418); stage 0 is the call of
\* line 350, before the time loop
Queried(stage, S) ==
    [p \in 1..numflux |->
        [kind |-> "query", i |-> i, k |-> k, stage |-> stage, q |-> p - 1, S |-> S]]

(***************************************************************************)
(* SAS functions.  rSASFunctionClass lives in _rsas_functions, which is    *)
(* not part of the source at hand; cdf_i is modelled from its contract:    *)
(* given an age-ranked storage profile S of m+1 entries and a time index,  *)
(* it returns m+1 cumulative fractions.  The first kinds meet the          *)
(* contract (values in [0,1], non-decreasing in age, 0 at age 0); the      *)
(* last kinds are malformed.                                               *)
(***************************************************************************)
\* storage at which the "stor" SAS function has selected everything
SMax == 2

\* the fraction selected from storage up to x: nothing from no storage, half
\* below SMax, everything from SMax on
Selected(x) ==
    IF ~RPos(x) THEN Zero ELSE IF RLt(x, FromInt(SMax)) THEN Rat(1, 2) ELSE One

cdf_young(S, m, t) == [j \in 0..m |-> IF j = 0 THEN Zero ELSE One]
cdf_old(S, m, t) == [j \in 0..m |-> IF j = m THEN One ELSE Zero]
cdf_lin(S, m, t) == [j \in 0..m |-> Rat(j, m)]
\* selection by storage, kept non-decreasing in age by a running maximum
cdf_stor(S, m, t) ==
    LET run[j \in 0..m] ==
            IF j = 0 THEN Zero ELSE float64_max(run[j - 1], Selected(S[j]))
    IN  [j \in 0..m |-> run[j]]
\* malformed: values above 1
cdf_over(S, m, t) == [j \in 0..m |-> IF j = 0 THEN Zero ELSE FromInt(2)]
\* malformed: decreases in age beyond age 1
cdf_decr(S, m, t) ==
    [j \in 0..m |-> IF j = 0 THEN Zero ELSE IF j = 1 THEN One ELSE Rat(1, 2)]
\* malformed: negative values
cdf_neg(S, m, t) == [j \in 0..m |-> IF j = 0 THEN Zero ELSE FromInt(-1)]
\* malformed: not 0 at age 0
cdf_age0(S, m, t) == [j \in 0..m |-> One]

ContractKinds == {"young", "old", "lin", "stor"}
\* malformed at some age > 0 only
MalformedKinds == {"over", "decr", "neg"}
AllKinds == ContractKinds \cup MalformedKinds \cup {"age0"}

\* rSAS_fun[q].cdf_i(S, t)
cdf_i(kind, S, m, t) ==
    CASE kind = "young" -> cdf_young(S, m, t)
      [] kind = "old" -> cdf_old(S, m, t)
      [] kind = "lin" -> cdf_lin(S, m, t)
      [] kind = "stor" -> cdf_stor(S, m, t)
      [] kind = "over" -> cdf_over(S, m, t)
      [] kind = "decr" -> cdf_decr(S, m, t)
      [] kind = "neg" -> cdf_neg(S, m, t)
      [] kind = "age0" -> cdf_age0(S, m, t)


(***************************************************************************)
(* solve: input checking (lines 140-242).  The arguments are arrays of     *)
(* the documented ranks; the checks on lengths and counts are modelled as  *)
(* written.                                                                *)
(***************************************************************************)
\* np.tile(a, (n, 1)) and np.tile(a, (n, 1, 1)) of an array one rank lower
Tile(a, n) == [t \in 0..(n - 1) |-> a]
\* np.ones((n, w, d))
Ones3(n, w, d) == [t \in 0..(n - 1) |-> [q \in 0..(w - 1) |-> [s \in 0..(d - 1) |-> One]]]

\* lines 177-186
alpha_tiled ==
    IF alpha.ndim = 2 THEN Tile(alpha.a, ALen(J)) ELSE alpha.a
alpha_mismatch ==
    /\ ALen(alpha_tiled[0][0]) # ALen(C_J[0])
    /\ ALen(alpha_tiled[0]) # ALen(Q[0])
\* lines 187-196
k1_tiled == IF k1.ndim = 1 THEN Tile(k1.a, ALen(J)) ELSE k1.a
k1_mismatch ==
    /\ ALen(k1_tiled[0]) # ALen(C_J[0])
    /\ ALen(k1_tiled) # ALen(J)
\* lines 197-206
C_eq_tiled == IF C_eq.ndim = 1 THEN Tile(C_eq.a, ALen(J)) ELSE C_eq.a
C_eq_mismatch ==
    /\ ALen(C_eq_tiled[0]) # ALen(C_J[0])
    /\ ALen(C_eq_tiled) # ALen(J)
\* lines 207-212
C_old_mismatch == ALen(C_old) # ALen(C_J[0])
\* lines 213-220; len(ST_init) of None is a TypeError as well
CS_init_tiled ==
    IF CS_init.ndim = 1 THEN Tile(CS_init.a, ALen(ST_init)) ELSE CS_init.a
CS_init_mismatch ==
    \/ CS_init.ndim = 1 /\ ST_init = None
    \/ /\ ALen(CS_init_tiled[0]) # ALen(C_J[0])
       /\ ALen(CS_init_tiled) # ALen(ST_init)

\* some raise TypeError of lines 140-220 is reached
solve_raises ==
    \/ ALen(Q) # ALen(J)
    \/ ST_init # None /\ ~RIsZero(ST_init[0])
    \/ ALen(Q[0]) # ALen(rSAS_fun)
    \/ /\ C_J # None
       /\ \/ ALen(C_J) # ALen(J)
          \/ alpha # NoArray /\ alpha_mismatch
          \/ k1 # NoArray /\ k1_mismatch
          \/ C_eq # NoArray /\ C_eq_mismatch
          \/ C_old # None /\ C_old_mismatch
          \/ CS_init # NoArray /\ CS_init_mismatch

solve ==
    /\ pc = "solve"
    /\ IF solve_raises
       THEN /\ pc' = "raised"
            /\ err' = Raised("TypeError", "solve")
            /\ UNCHANGED <<alpha, k1, C_eq, CS_init>>
       ELSE /\ pc' = "_solve_RK4"
            /\ err' = err
            /\ IF C_J # None
               THEN /\ alpha' = [ndim |-> 3,
                                 a |-> IF alpha # NoArray THEN alpha_tiled
                                       ELSE Ones3(ALen(J), ALen(Q[0]), ALen(C_J[0]))]
                    /\ k1' = [ndim |-> 2,
                              a |-> IF k1 # NoArray THEN k1_tiled
                                    ELSE Zeros2(ALen(J), ALen(C_J[0]))]
                    /\ C_eq' = [ndim |-> 2,
                                a |-> IF C_eq # NoArray THEN C_eq_tiled
                                      ELSE Zeros2(ALen(J), ALen(C_J[0]))]
                    /\ CS_init' = IF CS_init # NoArray
                                  THEN [ndim |-> 2, a |-> CS_init_tiled]
                                  ELSE CS_init
               ELSE UNCHANGED <<alpha, k1, C_eq, CS_init>>
    /\ UNCHANGED <<J, Q, rSAS_fun, ST_init, dt, n_substeps, full_outputs, C_J, C_old>>
    /\ UNCHANGED <<water, solute, outputs, i, k, history, queries>>

(***************************************************************************)
(* _solve_RK4: initialization (lines 292-360).                             *)
(***************************************************************************)
\* line 349 without the division by n_substeps
STn_init_undivided ==
    LET d == Diff(ST_init, max_age + 1)
        cs[j \in 0..M] ==
            IF j = 0 THEN Zero ELSE RAdd(cs[j - 1], d[(j - 1) \div n_substeps])
    IN  [j \in 0..M |-> cs[j]]

\* line 349: np.cumsum(np.diff(ST_init).repeat(n_substeps)) / n_substeps
STn_init ==
    LET d == Diff(ST_init, max_age + 1)
        cs[j \in 0..M] ==
            IF j = 0 THEN Zero ELSE RAdd(cs[j - 1], d[(j - 1) \div n_substeps])
    IN  [j \in 0..M |-> IF j = 0 THEN Zero ELSE RDiv(cs[j], FromInt(n_substeps))]

\* line 350: one cdf_i column per outflow
PQn_init(S) ==
    LET col == [q \in 0..(numflux - 1) |-> cdf_i(rSAS_fun[q], S, M, 0)]
    IN  [j \in 0..M |-> [q \in 0..(numflux - 1) |-> col[q][j]]]

\* line 354: CS_init[:, s] * ST_init broadcasts a CS_init of one row
CS_times_ST(s) ==
    [a \in 0..max_age |->
        RMul(CS_init.a[IF ALen(CS_init.a) = 1 THEN 0 ELSE a][s], ST_init[a])]
mSn_init ==
    IF CS_init # NoArray
    THEN [j \in 0..(M - 1) |-> [s \in 0..(numsol - 1) |->
            RDiv(Diff(CS_times_ST(s), max_age + 1)[j \div n_substeps],
                 FromInt(n_substeps))]]
    ELSE Zeros2(M, numsol)
\* line 354 cannot index or broadcast CS_init
CS_init_ValueError ==
    CS_init # NoArray /\ numsol > 0 /\ ALen(CS_init.a) \notin {1, max_age + 1}
CS_init_IndexError ==
    CS_init # NoArray /\ numsol > ALen(CS_init.a[0])

\* np.r_[zeros, np.cumsum(m, axis=0)][0:M+1:n_substeps] (lines 359, 466)
CumSample(m) ==
    [a \in 0..max_age |-> [s \in 0..(numsol - 1) |->
        RSum([j \in 0..(M - 1) |-> m[j][s]], 0, a * n_substeps - 1)]]

\* out with out[a][t] = col[a] for every age a
SetColumn(out, t, col) == [a \in DOMAIN out |-> [out[a] EXCEPT ![t] = col[a]]]

Initialize ==
    /\ pc = "_solve_RK4"
    /\ IF ST_init = None \/ CS_init_ValueError \/ CS_init_IndexError
       THEN /\ pc' = "raised"
            /\ err' = Raised(IF ST_init = None THEN "TypeError"
                             ELSE IF CS_init_ValueError THEN "ValueError"
                             ELSE "IndexError", "_solve_RK4")
            /\ UNCHANGED <<water, solute, outputs, i, k, queries>>
       ELSE /\ pc' = "roll"
            /\ err' = err
            /\ i' = 0
            /\ k' = 0
            /\ STn' = STn_init
            /\ queries' = Written("commit", 0, STn') \o Queried(0, STn')
            /\ STp' = Zeros(M + 1)
            /\ STt' = Zeros(M + 1)
            /\ PQ1' = Zeros2(M + 1, numflux)
            /\ PQ2' = Zeros2(M + 1, numflux)
            /\ PQ3' = Zeros2(M + 1, numflux)
            /\ PQ4' = Zeros2(M + 1, numflux)
            /\ PQn' = PQn_init(STn')
            /\ sTt' = Zeros(M)
            /\ sTn' = Diff(STn', M + 1)
            /\ pQt' = Zeros2(M, numflux)
            /\ pQn' = Zeros2(M, numflux)
            /\ mQ1' = Zeros3(M, numflux, numsol)
            /\ mQ2' = Zeros3(M, numflux, numsol)
            /\ mQ3' = Zeros3(M, numflux, numsol)
            /\ mQ4' = Zeros3(M, numflux, numsol)
            /\ mR1' = Zeros2(M, numsol)
            /\ mR2' = Zeros2(M, numsol)
            /\ mR3' = Zeros2(M, numsol)
            /\ mR4' = Zeros2(M, numsol)
            /\ mQn' = Zeros3(M, numflux, numsol)
            /\ mRn' = Zeros2(M, numsol)
            /\ mSp' = Zeros2(M, numsol)
            /\ mSn' = mSn_init
            /\ mSt' = Zeros2(M, numsol)
            /\ C_Q' = Zeros3(timeseries_length, numflux, numsol)
            /\ IF full_outputs
               THEN /\ ST' = SetColumn(Zeros2(max_age + 1, timeseries_length + 1), 0,
                                       [a \in 0..max_age |-> STn'[a * n_substeps]])
                    /\ WaterBalance' = Zeros2(max_age, timeseries_length)
                    /\ PQ' = SetColumn(Zeros3(max_age + 1, timeseries_length + 1, numflux), 0,
                                       [a \in 0..max_age |-> PQn'[a * n_substeps]])
                    /\ IF numsol > 0
                       THEN /\ MS' = SetColumn(
                                    Zeros3(max_age + 1, timeseries_length + 1, numsol),
                                    0, CumSample(mSn'))
                            /\ MQ' = [a \in 0..max_age |->
                                        Zeros3(timeseries_length + 1, numflux, numsol)]
                            /\ MR' = Zeros3(max_age + 1, timeseries_length + 1, numsol)
                            /\ SoluteBalance' = Zeros3(max_age, timeseries_length, numsol)
                       ELSE /\ MS' = <<>>
                            /\ MQ' = <<>>
                            /\ MR' = <<>>
                            /\ SoluteBalance' = <<>>
               ELSE /\ ST' = <<>>
                    /\ WaterBalance' = <<>>
                    /\ PQ' = <<>>
                    /\ MS' = <<>>
                    /\ MQ' = <<>>
                    /\ MR' = <<>>
                    /\ SoluteBalance' = <<>>
            /\ UNCHANGED result
    /\ UNCHANGED <<inputs, history>>


(***************************************************************************)
(* _solve_RK4: one substep (i, k) of the solution loop (lines 363-455).    *)
(***************************************************************************)
\* np.dot(Q[i,:], P[j,:]) for one age j
DotQ(Prow) == RSum([q \in 0..(numflux - 1) |-> RMul(Q[i][q], Prow[q])], 0, numflux - 1)

\* x * h/2
HalfStep(x) == RDiv(RMul(x, h), FromInt(2))

\* lines 375, 388, 403, 418: one cdf_i query per outflow, on the profile S
StagePQ(S) ==
    LET col == [q \in 0..(numflux - 1) |-> cdf_i(rSAS_fun[q], S, M, i)]
    IN  [j \in 0..M |-> [q \in 0..(numflux - 1) |-> col[q][j]]]

\* lines 376-377, 391-392, 406-407, 421-422: forward difference of P[0:M],
\* with the youngest entry taken from first
StageDensity(P, first) ==
    [j \in 0..(M - 1) |-> [q \in 0..(numflux - 1) |->
        IF j = 0 THEN first[q] ELSE RSub(P[j][q], P[j - 1][q])]]

\* lines 389-390, 404-405, 419-420: age increments of the trial profile
StageIncrement(S) ==
    [j \in 0..(M - 1) |-> IF j = 0 THEN S[0] ELSE RSub(S[j], S[j - 1])]

\* lines 380, 395, 410, 425: np.where(sT > 0, mS * alpha * Q * pQ / sT, 0.)
StageFlux(mS, sT, pQ) ==
    [j \in 0..(M - 1) |-> [q \in 0..(numflux - 1) |-> [s \in 0..(numsol - 1) |->
        IF RPos(sT[j])
        THEN RDiv(RMul(RMul(RMul(mS[j][s], alpha.a[i][q][s]), Q[i][q]), pQ[j][q]),
                  sT[j])
        ELSE Zero]]]

\* lines 381, 396, 411 without np.maximum(0., ...)
StageStorage_unclamped(P) ==
    [j \in 0..M |-> RAdd(STp[j], HalfStep(RSub(J[i], DotQ(P[j]))))]

\* lines 381, 396, 411: np.maximum(0., STp + (J[i] - np.dot(Q[i,:], P.T)) * h/2)
StageStorage(P) ==
    [j \in 0..M |->
        float64_max(Zero, RAdd(STp[j], HalfStep(RSub(J[i], DotQ(P[j])))))]

\* lines 383, 398, 413, 427: k1 * (C_eq * sT - mS)
StageReaction(sT, mS) ==
    [j \in 0..(M - 1) |-> [s \in 0..(numsol - 1) |->
        RMul(k1.a[i][s], RSub(RMul(C_eq.a[i][s], sT[j]), mS[j][s]))]]

\* lines 384-385, 399-400, 414-415: the trial solute mass; w is the weight of
\* the injected mass J[i] * C_J[i,s]
StageMass(mQ, mR, w) ==
    [j \in 0..(M - 1) |-> [s \in 0..(numsol - 1) |->
        LET out == RSum([q \in 0..(numflux - 1) |-> mQ[j][q][s]], 0, numflux - 1)
            base == RAdd(RSub(mSp[j][s], HalfStep(out)), HalfStep(mR[j][s]))
        IN  IF j = 0 THEN RAdd(base, RMul(RMul(J[i], C_J[i][s]), w)) ELSE base]]

\* alpha[i,q,s], k1[i,s], C_eq[i,s] at lines 380, 383 on an array that is too
\* small
alpha_IndexError ==
    /\ numsol > 0 /\ numflux > 0
    /\ \/ i >= ALen(alpha.a)
       \/ numflux > ALen(alpha.a[0])
       \/ numsol > ALen(alpha.a[0][0])
k1_IndexError ==
    numsol > 0 /\ (i >= ALen(k1.a) \/ numsol > ALen(k1.a[0]))
C_eq_IndexError ==
    numsol > 0 /\ (i >= ALen(C_eq.a) \/ numsol > ALen(C_eq.a[0]))

\* lines 367-372
Roll ==
    /\ pc = "roll"
    /\ pc' = "K1"
    /\ STn' = STp
    /\ STp' = STn
    /\ sTt' = [j \in 0..(M - 1) |-> IF j = 0 THEN RMul(h, J[i]) ELSE sTn[j - 1]]
    /\ mSp' = [j \in 0..(M - 1) |-> [s \in 0..(numsol - 1) |->
                 IF j = 0 THEN Zero ELSE mSn[j - 1][s]]]
    /\ UNCHANGED <<STt, sTn, PQ1, PQ2, PQ3, PQ4, PQn, pQt, pQn>>
    /\ UNCHANGED <<mQ1, mQ2, mQ3, mQ4, mR1, mR2, mR3, mR4, mQn, mRn, mSn, mSt>>
    /\ UNCHANGED <<inputs, outputs, i, k, err, history, queries>>

\* lines 373-385
Stage1 ==
    /\ pc = "K1"
    /\ IF alpha_IndexError \/ k1_IndexError \/ C_eq_IndexError
       THEN /\ pc' = "raised"
            /\ err' \in Unchecked("IndexError")
            /\ queries' = queries \o Queried(1, STp)
            /\ UNCHANGED <<PQ1, pQt, mQ1, STt, mR1, mSt>>
       ELSE /\ pc' = "K2"
            /\ err' = err
            /\ PQ1' = StagePQ(STp)
            /\ pQt' = StageDensity(PQ1', PQ1'[0])
            /\ mQ1' = StageFlux(mSp, sTt, pQt')
            /\ STt' = StageStorage(PQ1')
            /\ queries' = queries \o Queried(1, STp) \o Written("trial", 1, STt')
            /\ mR1' = StageReaction(sTt, mSp)
            /\ mSt' = StageMass(mQ1', mR1', RDiv(h, FromInt(2)))
    /\ UNCHANGED <<STn, STp, sTt, sTn, PQ2, PQ3, PQ4, PQn, pQn>>
    /\ UNCHANGED <<mQ2, mQ3, mQ4, mR2, mR3, mR4, mQn, mRn, mSp, mSn>>
    /\ UNCHANGED <<inputs, outputs, i, k, history>>

\* lines 386-400
Stage2 ==
    /\ pc = "K2"
    /\ pc' = "K3"
    /\ PQ2' = StagePQ(STt)
    /\ sTt' = StageIncrement(STt)
    /\ pQt' = StageDensity(PQ2', PQ2'[0])
    /\ mQ2' = StageFlux(mSt, sTt', pQt')
    /\ STt' = StageStorage(PQ2')
    /\ queries' = queries \o Queried(2, STt) \o Written("trial", 2, STt')
    /\ mR2' = StageReaction(sTt', mSt)
    /\ mSt' = StageMass(mQ2', mR2', RDiv(h, FromInt(2)))
    /\ UNCHANGED <<STn, STp, sTn, PQ1, PQ3, PQ4, PQn, pQn>>
    /\ UNCHANGED <<mQ1, mQ3, mQ4, mR1, mR3, mR4, mQn, mRn, mSp, mSn>>
    /\ UNCHANGED <<inputs, outputs, i, k, err, history>>

\* lines 401-415; line 407 takes the youngest density from PQ2
Stage3 ==
    /\ pc = "K3"
    /\ pc' = "K4"
    /\ PQ3' = StagePQ(STt)
    /\ sTt' = StageIncrement(STt)
    /\ pQt' = StageDensity(PQ3', PQ2[0])
    /\ mQ3' = StageFlux(mSt, sTt', pQt')
    /\ STt' = StageStorage(PQ3')
    /\ queries' = queries \o Queried(3, STt) \o Written("trial", 3, STt')
    /\ mR3' = StageReaction(sTt', mSt)
    /\ mSt' = StageMass(mQ3', mR3', h)
    /\ UNCHANGED <<STn, STp, sTn, PQ1, PQ2, PQ4, PQn, pQn>>
    /\ UNCHANGED <<mQ1, mQ2, mQ4, mR1, mR2, mR4, mQn, mRn, mSp, mSn>>
    /\ UNCHANGED <<inputs, outputs, i, k, err, history>>

\* lines 416-427; line 422 takes the youngest density from PQ2
Stage4 ==
    /\ pc = "K4"
    /\ pc' = "final"
    /\ PQ4' = StagePQ(STt)
    /\ queries' = queries \o Queried(4, STt)
    /\ sTt' = StageIncrement(STt)
    /\ pQt' = StageDensity(PQ4', PQ2[0])
    /\ mQ4' = StageFlux(mSt, sTt', pQt')
    /\ mR4' = StageReaction(sTt', mSt)
    /\ UNCHANGED <<STn, STp, STt, sTn, PQ1, PQ2, PQ3, PQn, pQn>>
    /\ UNCHANGED <<mQ1, mQ2, mQ3, mR1, mR2, mR3, mQn, mRn, mSp, mSn, mSt>>
    /\ UNCHANGED <<inputs, outputs, i, k, err, history>>


\* lines 429, 437, 438: the Runge-Kutta weights (1, 2, 2, 1) / 6
RK4(a, b, c, d) ==
    RDiv(RAdd(RAdd(a, RMul(FromInt(2), b)), RAdd(RMul(FromInt(2), c), d)), FromInt(6))

\* lines 429-432 without the zero-flow guard of lines 430-432
PQn_next_unguarded ==
    [j \in 0..M |-> [q \in 0..(numflux - 1) |->
        IF j = 0 THEN PQn[0][q]
        ELSE RK4(PQ1[j - 1][q], PQ2[j - 1][q], PQ3[j - 1][q], PQ4[j - 1][q])]]

\* lines 429-432: the combined distribution, one age older, zero where the
\* outflow is zero
PQn_next ==
    [j \in 0..M |-> [q \in 0..(numflux - 1) |->
        IF RIsZero(Q[i][q]) THEN Zero
        ELSE IF j = 0 THEN PQn[0][q]
        ELSE RK4(PQ1[j - 1][q], PQ2[j - 1][q], PQ3[j - 1][q], PQ4[j - 1][q])]]

\* line 433 with the combined distribution taken one age too young
STn_next_unshifted(P) ==
    [j \in 0..M |->
        IF j = 0 THEN STn[0]
        ELSE RAdd(STp[j - 1], RMul(h, RSub(J[i], DotQ(P[j - 1]))))]

\* line 433
STn_next(P) ==
    [j \in 0..M |->
        IF j = 0 THEN STn[0]
        ELSE RAdd(STp[j - 1], RMul(h, RSub(J[i], DotQ(P[j]))))]

\* line 437
mQn_next ==
    [j \in 0..(M - 1) |-> [q \in 0..(numflux - 1) |-> [s \in 0..(numsol - 1) |->
        RK4(mQ1[j][q][s], mQ2[j][q][s], mQ3[j][q][s], mQ4[j][q][s])]]]
\* line 438
mRn_next ==
    [j \in 0..(M - 1) |-> [s \in 0..(numsol - 1) |->
        RK4(mR1[j][s], mR2[j][s], mR3[j][s], mR4[j][s])]]

\* lines 440-443 with the half step of the stages in place of the full step
mSn_next_halfstep(mQ, mR) ==
    [j \in 0..(M - 1) |-> [s \in 0..(numsol - 1) |->
        LET out == RSum([q \in 0..(numflux - 1) |-> mQ[j][q][s]], 0, numflux - 1)
            base == RSub(RAdd(mSp[j][s], HalfStep(mR[j][s])), HalfStep(out))
        IN  IF j = 0 THEN RAdd(base, RMul(RMul(J[i], C_J[i][s]), h)) ELSE base]]

\* lines 440-443
mSn_next(mQ, mR) ==
    [j \in 0..(M - 1) |-> [s \in 0..(numsol - 1) |->
        LET out == RSum([q \in 0..(numflux - 1) |-> mQ[j][q][s]], 0, numflux - 1)
            base == RSub(RAdd(mSp[j][s], RMul(mR[j][s], h)), RMul(out, h))
        IN  IF j = 0 THEN RAdd(base, RMul(RMul(J[i], C_J[i][s]), h)) ELSE base]]

\* lines 444-445
C_Q_next(mQ) ==
    [C_Q EXCEPT ![i] = [q \in 0..(numflux - 1) |-> [s \in 0..(numsol - 1) |->
        IF RPos(Q[i][q])
        THEN RAdd(C_Q[i][q][s],
                  RDiv(RDiv(RSum([j \in 0..(M - 1) |-> mQ[j][q][s]], 0, M - 1),
                            Q[i][q]),
                       FromInt(n_substeps)))
        ELSE C_Q[i][q][s]]]]

\* line 449 with the slice starting one substep age early
FirstCell_early(a) == IF a = 1 THEN 0 ELSE (a - 2) * n_substeps + k

\* lines 448-449: the substep ages that substep k folds into output age a:
\* [:k+1] for a = 1, row a-2 of the reshaped [k+1 : M-(n_substeps-k-1)] above
FirstCell(a) == IF a = 1 THEN 0 ELSE (a - 2) * n_substeps + k + 1
LastCell(a) == IF a = 1 THEN k ELSE (a - 1) * n_substeps + k

\* np.sum(x[FirstCell(a) : LastCell(a)+1]) / n_substeps; output age 0 gets nothing
Fold(x, a) ==
    IF a = 0 THEN Zero
    ELSE RDiv(RSum(x, FirstCell(a), LastCell(a)), FromInt(n_substeps))

\* lines 428-455
Finalize ==
    /\ pc = "final"
    /\ PQn' = PQn_next
    /\ STn' = STn_next(PQn')
    /\ sTn' = Diff(STn', M + 1)
    /\ pQn' = Diff2(PQn', M + 1, numflux)
    /\ mQn' = mQn_next
    /\ mRn' = mRn_next
    /\ mSn' = mSn_next(mQn', mRn')
    /\ C_Q' = C_Q_next(mQn')
    /\ IF full_outputs
       THEN /\ PQ' = [a \in 0..max_age |-> [PQ[a] EXCEPT ![i + 1] =
                        [q \in 0..(numflux - 1) |->
                            RAdd(PQ[a][i + 1][q],
                                 Fold([j \in 0..(M - 1) |-> pQn'[j][q]], a))]]]
            /\ IF numsol > 0
               THEN /\ MQ' = [a \in 0..max_age |-> [MQ[a] EXCEPT ![i + 1] =
                                [q \in 0..(numflux - 1) |-> [s \in 0..(numsol - 1) |->
                                    RAdd(MQ[a][i + 1][q][s],
                                         Fold([j \in 0..(M - 1) |-> mQn'[j][q][s]], a))]]]]
                    /\ MR' = [a \in 0..max_age |-> [MR[a] EXCEPT ![i + 1] =
                                [s \in 0..(numsol - 1) |->
                                    RAdd(MR[a][i + 1][s],
                                         Fold([j \in 0..(M - 1) |-> mRn'[j][s]], a))]]]
               ELSE UNCHANGED <<MQ, MR>>
       ELSE UNCHANGED <<PQ, MQ, MR>>
    /\ queries' = queries \o Written("commit", 4, STn')
    /\ pQn_k' = [kk \in 0..k |-> IF kk = k THEN pQn' ELSE pQn_k[kk]]
    /\ PQn_k' = [kk \in 0..k |-> IF kk = k THEN PQn' ELSE PQn_k[kk]]
    /\ IF k + 1 < n_substeps
       THEN pc' = "roll" /\ k' = k + 1
       ELSE pc' = "store" /\ k' = k
    /\ UNCHANGED <<STp, STt, sTt, PQ1, PQ2, PQ3, PQ4, pQt>>
    /\ UNCHANGED <<mQ1, mQ2, mQ3, mQ4, mR1, mR2, mR3, mR4, mSp, mSt>>
    /\ UNCHANGED <<ST, WaterBalance, MS, SoluteBalance, result>>
    /\ UNCHANGED <<inputs, i, err>>

(***************************************************************************)
(* _solve_RK4: storing timestep i (lines 456-480).                         *)
(***************************************************************************)
\* line 460 left out: the increments are stored as they are
PQ_stored_increments == PQ

\* line 460
PQ_stored ==
    [a \in 0..max_age |-> [PQ[a] EXCEPT ![i + 1] =
        [q \in 0..(numflux - 1) |->
            RSum([b \in 0..a |-> PQ[b][i + 1][q]], 0, a)]]]
\* line 459 without the stride n_substeps
ST_stored_unsampled == SetColumn(ST, i + 1, [a \in 0..max_age |-> STn[a]])

\* line 459
ST_stored == SetColumn(ST, i + 1, [a \in 0..max_age |-> STn[a * n_substeps]])

\* lines 462-463, with S and P the arrays just stored
WaterBalance_stored(S, P) ==
    SetColumn(WaterBalance, i,
        [a \in 0..(max_age - 1) |->
            IF a = 0
            THEN RSub(RSub(RMul(J[i], dt), S[1][i + 1]),
                      RMul(dt, RSum([q \in 0..(numflux - 1) |->
                                RMul(Q[i][q], RSub(P[1][i + 1][q], P[0][i + 1][q]))],
                                0, numflux - 1)))
            ELSE RSub(RSub(RSub(S[a][i], S[a - 1][i]),
                           RSub(S[a + 1][i + 1], S[a][i + 1])),
                      RMul(dt, RSum([q \in 0..(numflux - 1) |->
                                RMul(Q[i][q], RSub(P[a + 1][i + 1][q], P[a][i + 1][q]))],
                                0, numflux - 1)))])

\* line 466
MS_stored == SetColumn(MS, i + 1, CumSample(mSn))
\* line 467
MR_stored ==
    [a \in 0..max_age |-> [MR[a] EXCEPT ![i + 1] =
        [s \in 0..(numsol - 1) |->
            RSum([b \in 0..a |-> MR[b][i + 1][s]], 0, a)]]]
\* line 468
MQ_stored ==
    [a \in 0..max_age |-> [MQ[a] EXCEPT ![i + 1] =
        [q \in 0..(numflux - 1) |-> [s \in 0..(numsol - 1) |->
            RSum([b \in 0..a |-> MQ[b][i + 1][q][s]], 0, a)]]]]
\* lines 469-471: the unobserved fraction, with P the PQ just stored
C_Q_stored(P) ==
    [C_Q EXCEPT ![i] = [q \in 0..(numflux - 1) |-> [s \in 0..(numsol - 1) |->
        RAdd(C_Q[i][q][s],
             RMul(RMul(alpha.a[i][q][s], C_old[s]),
                  RSub(One, P[max_age][i + 1][q])))]]]
\* lines 474-477, with mS, mR, mQ the arrays just stored
SoluteBalance_stored(mS, mR, mQ) ==
    SetColumn(SoluteBalance, i,
        [a \in 0..(max_age - 1) |-> [s \in 0..(numsol - 1) |->
            IF a = 0
            THEN RAdd(RSub(RSub(RMul(RMul(C_J[i][s], J[i]), dt), mS[1][i + 1][s]),
                           RMul(dt, RSum([q \in 0..(numflux - 1) |->
                                RSub(mQ[1][i + 1][q][s], mQ[0][i + 1][q][s])],
                                0, numflux - 1))),
                      RMul(dt, RSub(mR[1][i + 1][s], mR[0][i + 1][s])))
            ELSE RSub(RAdd(RSub(RSub(mS[a][i][s], mS[a - 1][i][s]),
                                RSub(mS[a + 1][i + 1][s], mS[a][i + 1][s])),
                           RMul(dt, RSub(mR[a + 1][i + 1][s], mR[a][i + 1][s]))),
                      RMul(dt, RSum([q \in 0..(numflux - 1) |->
                                RSub(mQ[a + 1][i + 1][q][s], mQ[a][i + 1][q][s])],
                                0, numflux - 1)))]])

\* line 471 subscripts C_old, which is None unless the caller passed it
C_old_TypeError == full_outputs /\ numsol > 0 /\ numflux > 0 /\ C_old = None

Store ==
    /\ pc = "store"
    /\ IF C_old_TypeError
       THEN /\ pc' = "raised"
            /\ err' \in Unchecked("TypeError")
            /\ UNCHANGED <<outputs, i, k>>
       ELSE /\ err' = err
            /\ i' = i + 1
            /\ k' = 0
            /\ pc' = IF i + 1 < timeseries_length THEN "roll" ELSE "return"
            /\ IF full_outputs
               THEN /\ ST' = ST_stored
                    /\ PQ' = PQ_stored
                    /\ WaterBalance' = WaterBalance_stored(ST', PQ')
                    /\ IF numsol > 0
                       THEN /\ MS' = MS_stored
                            /\ MR' = MR_stored
                            /\ MQ' = MQ_stored
                            /\ C_Q' = C_Q_stored(PQ')
                            /\ SoluteBalance' = SoluteBalance_stored(MS', MR', MQ')
                       ELSE UNCHANGED <<MS, MR, MQ, C_Q, SoluteBalance>>
               ELSE UNCHANGED <<ST, PQ, WaterBalance, MS, MR, MQ, C_Q, SoluteBalance>>
            /\ UNCHANGED result
    /\ UNCHANGED <<inputs, water, solute, history, queries>>

\* lines 481-487
Return ==
    /\ pc = "return"
    /\ pc' = "done"
    /\ result' = IF numsol > 0
                 THEN {"ST", "PQ", "WaterBalance", "MS", "MQ", "MR", "C_Q", "SoluteBalance"}
                 ELSE {"ST", "PQ", "WaterBalance"}
    /\ UNCHANGED <<C_Q, ST, PQ, WaterBalance, MS, MQ, MR, SoluteBalance>>
    /\ UNCHANGED <<inputs, water, solute, i, k, err, history, queries>>

Next ==
    \/ solve
    \/ Initialize
    \/ Roll
    \/ Stage1
    \/ Stage2
    \/ Stage3
    \/ Stage4
    \/ Finalize
    \/ Store
    \/ Return


(***************************************************************************)
(* The calls of solve that are explored.                                   *)
(***************************************************************************)
\* a timeseries of n rows, each the list row
Const(n, row) == [t \in 0..(n - 1) |-> Arr(row)]
\* a timeseries of n rows alternating between even and odd
Alternate(n, even, odd) ==
    [t \in 0..(n - 1) |-> IF t % 2 = 0 THEN Arr(even) ELSE Arr(odd)]
\* a list of integers as float64
Floats(row) == [j \in 1..Len(row) |-> FromInt(row[j])]

\* inflows of n timesteps: steady, and pulsed with dry timesteps
JSeries(n) ==
    {[t \in 0..(n - 1) |-> One],
     [t \in 0..(n - 1) |-> IF t % 2 = 0 THEN FromInt(2) ELSE Zero]}

\* outflows of n timesteps: one outflow equal to or above the steady inflow,
\* two outflows the second of which is zero throughout, two outflows the first
\* of which is zero at even timesteps
QSeries(n) ==
    {Const(n, Floats(<<1>>)), Const(n, Floats(<<2>>)),
     Const(n, Floats(<<1, 0>>)),
     Alternate(n, Floats(<<0, 1>>), Floats(<<1, 1>>))}

\* initial age-ranked storage of m ages: empty, and one unit per age
STSeries(m) ==
    {[a \in 0..m |-> Zero], [a \in 0..m |-> FromInt(a)]}

\* the state at the call of solve
AtCall ==
    /\ pc = "solve"
    /\ err = NoError
    /\ i = 0
    /\ k = 0
    /\ result = {}
    /\ STn = <<>> /\ STp = <<>> /\ STt = <<>> /\ sTt = <<>> /\ sTn = <<>>
    /\ PQ1 = <<>> /\ PQ2 = <<>> /\ PQ3 = <<>> /\ PQ4 = <<>> /\ PQn = <<>>
    /\ pQt = <<>> /\ pQn = <<>>
    /\ mQ1 = <<>> /\ mQ2 = <<>> /\ mQ3 = <<>> /\ mQ4 = <<>>
    /\ mR1 = <<>> /\ mR2 = <<>> /\ mR3 = <<>> /\ mR4 = <<>>
    /\ mQn = <<>> /\ mRn = <<>> /\ mSp = <<>> /\ mSn = <<>> /\ mSt = <<>>
    /\ C_Q = <<>> /\ ST = <<>> /\ PQ = <<>> /\ WaterBalance = <<>>
    /\ MS = <<>> /\ MQ = <<>> /\ MR = <<>> /\ SoluteBalance = <<>>
    /\ pQn_k = <<>> /\ PQn_k = <<>>
    /\ queries = <<>>

\* no solutes: C_J and its companions are not passed
NoSolutes ==
    /\ C_J = None
    /\ alpha = NoArray
    /\ k1 = NoArray
    /\ C_eq = NoArray
    /\ C_old = None
    /\ CS_init = NoArray

\* water only, SAS functions that meet the contract
Init ==
    /\ \E n \in 1..MaxT :
        /\ J \in JSeries(n)
        /\ Q \in QSeries(n)
    /\ rSAS_fun \in [0..(ALen(Q[0]) - 1) -> ContractKinds]
    /\ \E m \in 1..MaxAge : ST_init \in STSeries(m)
    /\ n_substeps \in 1..MaxSub
    /\ dt = One
    /\ full_outputs = TRUE
    /\ NoSolutes
    /\ AtCall

Spec == Init /\ [][Next]_vars


(***************************************************************************)
(* Properties.                                                             *)
(***************************************************************************)
\* _solve_RK4 has allocated the full outputs
Allocated == pc \notin {"solve", "_solve_RK4", "raised"} /\ full_outputs
\* every SAS function of the call returns 0 at age 0
ZeroAtAge0 == \A q \in DOMAIN rSAS_fun : rSAS_fun[q] # "age0"
\* every SAS function of the call meets the SAS contract
MeetsContract == \A q \in DOMAIN rSAS_fun : rSAS_fun[q] \in ContractKinds

\* C1: with SAS functions that return 0 at age 0, every entry of WaterBalance
\* is zero, and for every stored timestep t the youngest age closes:
\* J[t]*dt = ST[1,t+1] + dt * sum_q Q[t,q]*PQ[1,t+1,q].
C1_WaterBalanceCloses ==
    (Allocated /\ ZeroAtAge0) =>
        /\ \A a \in 0..(max_age - 1) : \A t \in 0..(timeseries_length - 1) :
                RIsZero(WaterBalance[a][t])
        /\ \A t \in 0..(i - 1) :
                RMul(J[t], dt) =
                    RAdd(ST[1][t + 1],
                         RMul(dt, RSum([q \in 0..(numflux - 1) |->
                                    RMul(Q[t][q], PQ[1][t + 1][q])], 0, numflux - 1)))

\* C1 witness: a finished run with more than one substep and more than one
\* age, in which water left and some storage was left behind.
C1_Witness ==
    /\ pc = "done" /\ Allocated /\ ZeroAtAge0
    /\ n_substeps > 1 /\ max_age > 1 /\ timeseries_length > 1
    /\ \E t \in 1..timeseries_length :
        /\ RPos(ST[1][t])
        /\ \E q \in 0..(numflux - 1) : RPos(PQ[1][t][q]) /\ RPos(Q[t - 1][q])

\* C3 (as claimed): with SAS functions meeting the contract and ST_init
\* non-negative and non-decreasing, ST[a,t] >= 0 for all ages and times.
C3_StorageNonNegative ==
    (Allocated /\ MeetsContract) =>
        \A a \in 1..max_age : \A t \in 0..timeseries_length : RLe(Zero, ST[a][t])

\* C4: for SAS functions meeting the contract, every stored column t >= 1 of
\* PQ of an outflow with Q[t-1,q] # 0 is a CDF in age: 0 at age 0,
\* non-decreasing, within [0,1].
C4_PQIsCDF ==
    (Allocated /\ MeetsContract) =>
        \A t \in 1..i : \A q \in 0..(numflux - 1) :
            ~RIsZero(Q[t - 1][q]) =>
                /\ RIsZero(PQ[0][t][q])
                /\ \A a \in 0..(max_age - 1) : RLe(PQ[a][t][q], PQ[a + 1][t][q])
                /\ \A a \in 0..max_age :
                        RLe(Zero, PQ[a][t][q]) /\ RLe(PQ[a][t][q], One)

\* C4 witness: a stored column that rises strictly through an intermediate
\* value, computed with several substeps.
C4_Witness ==
    /\ Allocated /\ MeetsContract /\ n_substeps > 1 /\ max_age > 1 /\ i >= 1
    /\ \E q \in 0..(numflux - 1) :
        /\ ~RIsZero(Q[i - 1][q])
        /\ RLt(Zero, PQ[1][i][q])
        /\ RLt(PQ[1][i][q], PQ[2][i][q])

\* the outflow column q is zero at every timestep
ZeroColumn(q) == \A t \in 0..(timeseries_length - 1) : RIsZero(Q[t][q])

\* C5 (as claimed): a zero outflow column has PQ[a,t,q] = 0 for every age and
\* every output time t in 0..n, the initial column included.
C5_ZeroFlowPQZeroEverywhere ==
    (Allocated /\ MeetsContract) =>
        \A q \in 0..(numflux - 1) : ZeroColumn(q) =>
            \A a \in 0..max_age : \A t \in 0..timeseries_length :
                RIsZero(PQ[a][t][q])

\* C5 (amended): a zero outflow column has PQ[a,t,q] = 0 for every age and
\* every output time t in 1..n; the initial column t = 0 is cdf_i of the
\* refined ST_init at time 0, sampled every n_substeps ages, whatever the flow.
C5_ZeroFlowPQZeroAfterStart ==
    (Allocated /\ MeetsContract) =>
        \A q \in 0..(numflux - 1) : ZeroColumn(q) =>
            /\ \A a \in 0..max_age : \A t \in 1..timeseries_length :
                    RIsZero(PQ[a][t][q])
            /\ \A a \in 0..max_age :
                    PQ[a][0][q] = cdf_i(rSAS_fun[q], STn_init, M, 0)[a * n_substeps]

\* C5 witness: a finished run with a zero outflow column next to a nonzero
\* one, nonzero initial storage and a nonzero initial column.
C5_Witness ==
    /\ pc = "done" /\ Allocated /\ MeetsContract
    /\ \E q \in 0..(numflux - 1) :
        /\ ZeroColumn(q)
        /\ RPos(ST_init[max_age])
        /\ RPos(PQ[max_age][0][q])
        /\ \E r \in 0..(numflux - 1) : RPos(PQ[max_age][timeseries_length][r])

\* column i of the outputs has just been stored from the substeps in history
JustStored ==
    /\ Allocated /\ i >= 1
    /\ (pc = "roll" /\ k = 0) \/ pc \in {"return", "done"}

\* C10: the substep ages that output age a owns at substep kk
OwnedCells(a, kk) ==
    IF a = 1 THEN 0..kk
    ELSE ((a - 2) * n_substeps + kk + 1)..((a - 1) * n_substeps + kk)

\* C10: for the timestep just stored, every outflow q and output age a >= 1,
\* PQ[a,i+1,q] - PQ[a-1,i+1,q] is 1/n_substeps times the sum over the substeps
\* kk of the combined density pQn over the cells a owns; PQ[a,i+1,q] is
\* 1/n_substeps times the sum over kk of PQn[(a-1)*n_substeps+kk+1, q]; and no
\* cell is owned by two output ages.
C10_AggregationExact ==
    (JustStored /\ ZeroAtAge0) =>
        \A q \in 0..(numflux - 1) : \A a \in 1..max_age :
            /\ RSub(PQ[a][i][q], PQ[a - 1][i][q]) =
                  RDiv(RSum([kk \in 0..(n_substeps - 1) |->
                          LET c == OwnedCells(a, kk)
                              lo == CHOOSE x \in c : \A y \in c : x <= y
                              hi == CHOOSE x \in c : \A y \in c : y <= x
                          IN  RSum([j \in 0..(M - 1) |-> pQn_k[kk][j][q]], lo, hi)],
                          0, n_substeps - 1),
                       FromInt(n_substeps))
            /\ PQ[a][i][q] =
                  RDiv(RSum([kk \in 0..(n_substeps - 1) |->
                          PQn_k[kk][(a - 1) * n_substeps + kk + 1][q]],
                          0, n_substeps - 1),
                       FromInt(n_substeps))
            /\ \A b \in 1..max_age : \A kk \in 0..(n_substeps - 1) :
                    b # a => OwnedCells(a, kk) \cap OwnedCells(b, kk) = {}

\* C10 witness: a stored timestep of several substeps and several output
\* ages in which the substeps contributed different densities to age 2.
C10_Witness ==
    /\ JustStored /\ ZeroAtAge0 /\ n_substeps > 1 /\ max_age > 1
    /\ \E q \in 0..(numflux - 1) :
        /\ RPos(RSub(PQ[2][i][q], PQ[1][i][q]))
        /\ \E j \in 0..(M - 1) : pQn_k[0][j][q] # pQn_k[1][j][q]


(***************************************************************************)
(* Calls with one solute.                                                  *)
(***************************************************************************)
\* an argument passed with rank d
Passed(d, a) == [ndim |-> d, a |-> a]

\* partitioning coefficients for w outflows and one solute: the default, and
\* a constant q x s array that halves the first outflow's concentration and
\* doubles the others'
alphaChoices(w) ==
    {NoArray,
     Passed(2, [q \in 0..(w - 1) |-> Arr(<<IF q = 0 THEN Rat(1, 2) ELSE FromInt(2)>>)])}

\* reaction: none, and first order towards C_eq = 2 at rate 2
ReactionChoices ==
    {<<NoArray, NoArray>>,
     <<Passed(1, Arr(<<FromInt(2)>>)), Passed(1, Arr(<<FromInt(2)>>))>>}

\* one solute with inflow concentration 1 throughout.  The timestep is 1;
\* with a reaction it is n_substeps (substeps of unit length), which keeps the
\* exact values of the reacting masses within the integers at hand.
InitSolute ==
    /\ \E n \in 1..MaxT :
        /\ J = [t \in 0..(n - 1) |-> One]
        /\ Q \in {Const(n, Floats(<<1>>)), Const(n, Floats(<<1, 0>>))}
        /\ C_J = Const(n, Floats(<<1>>))
    /\ rSAS_fun \in [0..(ALen(Q[0]) - 1) -> {"young", "stor"}]
    /\ \E m \in 1..MaxAge : ST_init \in STSeries(m)
    /\ n_substeps \in 1..MaxSub
    /\ full_outputs = TRUE
    /\ alpha \in alphaChoices(ALen(Q[0]))
    /\ \E r \in ReactionChoices : k1 = r[1] /\ C_eq = r[2]
    /\ dt = IF k1 = NoArray THEN One ELSE FromInt(n_substeps)
    /\ C_old \in {None, Arr(<<FromInt(3)>>)}
    /\ CS_init \in IF RPos(ST_init[1])
                   THEN {NoArray, Passed(1, Arr(<<FromInt(2)>>))}
                   ELSE {NoArray}
    /\ AtCall

SpecSolute == InitSolute /\ [][Next]_vars


\* C2: with C_J supplied, every entry of SoluteBalance is zero.
C2_SoluteBalanceCloses ==
    (Allocated /\ numsol > 0) =>
        \A a \in 0..(max_age - 1) : \A t \in 0..(timeseries_length - 1) :
            \A s \in 0..(numsol - 1) : RIsZero(SoluteBalance[a][t][s])

\* C2 witness: a finished run of several substeps in which solute of age > 1
\* left with an outflow under a passed alpha, and reacted.
C2_Witness ==
    /\ pc = "done" /\ Allocated /\ numsol > 0
    /\ n_substeps > 1 /\ max_age > 1 /\ CS_init # NoArray
    /\ ~RIsZero(alpha.a[0][0][0]) /\ alpha.a[0][0][0] # One
    /\ ~RIsZero(k1.a[0][0])
    /\ \E q \in 0..(numflux - 1) :
        MQ[2][timeseries_length][q][0] # MQ[1][timeseries_length][q][0]
    /\ MR[2][timeseries_length][0] # MR[1][timeseries_length][0]

\* C6 (as claimed): a zero outflow column has C_Q[t,q,s] = 0 for every
\* timestep and solute, whatever alpha and C_old.
C6_ZeroFlowCQZero ==
    (Allocated /\ numsol > 0) =>
        \A q \in 0..(numflux - 1) : ZeroColumn(q) =>
            \A t \in 0..(timeseries_length - 1) : \A s \in 0..(numsol - 1) :
                RIsZero(C_Q[t][q][s])

\* C6 (what the code returns instead): a zero outflow column gets no mass
\* flux in C_Q, but line 471 still adds the unobserved-fraction term in full:
\* for every stored timestep t and solute s, C_Q[t,q,s] is
\* alpha[t,q,s] * C_old[s], and the timesteps not yet stored are 0.
C6_ZeroFlowCQIsOldWater ==
    (Allocated /\ numsol > 0) =>
        \A q \in 0..(numflux - 1) : ZeroColumn(q) =>
            \A t \in 0..(timeseries_length - 1) : \A s \in 0..(numsol - 1) :
                C_Q[t][q][s] =
                    IF t < i THEN RMul(alpha.a[t][q][s], C_old[s]) ELSE Zero

\* C6 witness: a finished run with a zero outflow column whose C_Q is not
\* zero, next to an outflow that carried solute.
C6_Witness ==
    /\ pc = "done" /\ Allocated /\ numsol > 0
    /\ \E q \in 0..(numflux - 1) :
        /\ ZeroColumn(q)
        /\ RPos(C_Q[timeseries_length - 1][q][0])
        /\ \E r \in 0..(numflux - 1) :
            RPos(MQ[max_age][timeseries_length][r][0])

(***************************************************************************)
(* Calls with malformed SAS functions.                                     *)
(***************************************************************************)
InitMalformed ==
    /\ \E n \in 1..MaxT :
        /\ J \in JSeries(n)
        /\ Q \in {Const(n, Floats(<<1>>)), Const(n, Floats(<<2, 1>>))}
        /\ C_J \in {None, Const(n, Floats(<<1>>))}
    /\ rSAS_fun \in [0..(ALen(Q[0]) - 1) -> MalformedKinds \cup {"age0"}]
    /\ \E m \in 1..MaxAge : ST_init \in STSeries(m)
    /\ n_substeps \in 1..MaxSub
    /\ dt = One
    /\ full_outputs = TRUE
    /\ alpha = NoArray
    /\ k1 = NoArray
    /\ C_eq = NoArray
    /\ C_old \in IF C_J = None THEN {None} ELSE {None, Arr(<<FromInt(3)>>)}
    /\ CS_init = NoArray
    /\ AtCall

SpecMalformed == InitMalformed /\ [][Next]_vars

\* some SAS function of the call returns, at an age > 0, a value outside
\* [0,1] or a profile that decreases in age
ReturnsMalformed ==
    \E q \in DOMAIN rSAS_fun :
        \/ rSAS_fun[q] \in {"over", "neg"}
        \/ rSAS_fun[q] = "decr" /\ M >= 2

\* some balance residual of the outputs is not zero
ResidualNonzero ==
    \/ \E a \in 0..(max_age - 1) : \E t \in 0..(timeseries_length - 1) :
            ~RIsZero(WaterBalance[a][t])
    \/ /\ numsol > 0
       /\ \E a \in 0..(max_age - 1) : \E t \in 0..(timeseries_length - 1) :
            \E s \in 0..(numsol - 1) : ~RIsZero(SoluteBalance[a][t][s])

\* C7 (as claimed): a run whose SAS function returns malformed values at an
\* age > 0 and that has returned has raised no error and returns a nonzero
\* balance residual.
C7_MalformedSignalled ==
    (ReturnsMalformed /\ pc = "done") => (err = NoError /\ ResidualNonzero)

\* C7 (amended): in a run whose SAS functions return malformed values at
\* ages > 0 only (0 at age 0), the SAS values raise no error (the one error
\* such a run can end in is that of line 471 on a missing C_old, which does
\* not depend on the SAS functions), and every entry of WaterBalance and of
\* SoluteBalance is zero all the same: the residuals do not signal it.
C7_MalformedUnsignalled ==
    (ReturnsMalformed /\ ZeroAtAge0) =>
        /\ err # NoError => (C_old_TypeError /\ err \in Unchecked("TypeError"))
        /\ Allocated => ~ResidualNonzero

\* C7 witness: a finished run with solutes whose malformed SAS values reached
\* the returned PQ (a value above 1 or below 0) while water and solute left.
C7_Witness ==
    /\ pc = "done" /\ ReturnsMalformed /\ ZeroAtAge0 /\ numsol > 0
    /\ n_substeps > 1 /\ max_age > 1
    /\ \E q \in 0..(numflux - 1) :
        /\ \/ RLt(One, PQ[max_age][timeseries_length][q])
           \/ RLt(PQ[max_age][timeseries_length][q], Zero)
        /\ ~RIsZero(MQ[max_age][timeseries_length][q][0])


(***************************************************************************)
(* Calls that differ in the arguments passed and in their shapes.          *)
(***************************************************************************)
\* an array of the given shape filled with v
Full1(len, v) == [j \in 0..(len - 1) |-> v]
Full2(len, w, v) == [j \in 0..(len - 1) |-> Full1(w, v)]

\* alpha as a constant q x s array of ones, for 1..2 outflows and solutes
alphaShapes == {Passed(2, Full2(w, d, One)) : w \in 1..2, d \in 1..2}
\* k1 and C_eq as s zeros, or as an r x s array of zeros with r = n or n + 1
RateShapes(n) ==
    {Passed(1, Full1(d, Zero)) : d \in 1..2}
        \cup {Passed(2, Full2(r, d, Zero)) : r \in {n, n + 1}, d \in 1..2}
\* CS_init as s ones, or as an r x s array of ones with r = len or len + 1
CS_initShapes(len) ==
    {Passed(1, Full1(d, One)) : d \in 1..2}
        \cup {Passed(2, Full2(r, d, One)) : r \in {len, len + 1}, d \in 1..2}

\* the companions of C_J: all left out, or one of them passed
Companions(n, len) ==
    {[alpha |-> NoArray, k1 |-> NoArray, C_eq |-> NoArray, CS_init |-> NoArray]}
        \cup {[alpha |-> x, k1 |-> NoArray, C_eq |-> NoArray, CS_init |-> NoArray] :
                x \in alphaShapes}
        \cup {[alpha |-> NoArray, k1 |-> x, C_eq |-> NoArray, CS_init |-> NoArray] :
                x \in RateShapes(n)}
        \cup {[alpha |-> NoArray, k1 |-> NoArray, C_eq |-> x, CS_init |-> NoArray] :
                x \in RateShapes(n)}
        \cup {[alpha |-> NoArray, k1 |-> NoArray, C_eq |-> NoArray, CS_init |-> x] :
                x \in CS_initShapes(len)}

InitInputs ==
    /\ \E n \in 1..MaxT :
        /\ J = [t \in 0..(n - 1) |-> One]
        /\ Q \in {Full2(n, 1, One), Full2(n, 2, One)}
        /\ C_J \in {None, Full2(n, 1, One), Full2(n, 2, One)}
        /\ \E m \in 1..MaxAge :
            /\ ST_init \in {None, [a \in 0..m |-> Zero], [a \in 0..m |-> FromInt(a)],
                            [a \in 0..m |-> One]}
            /\ \E c \in Companions(n, m + 1) :
                /\ alpha = (IF C_J = None THEN NoArray ELSE c.alpha)
                /\ k1 = (IF C_J = None THEN NoArray ELSE c.k1)
                /\ C_eq = (IF C_J = None THEN NoArray ELSE c.C_eq)
                /\ CS_init = (IF C_J = None THEN NoArray ELSE c.CS_init)
    /\ rSAS_fun = [q \in 0..(ALen(Q[0]) - 1) |-> "young"]
    /\ C_old = IF C_J = None THEN None ELSE Full1(ALen(C_J[0]), One)
    /\ n_substeps \in 1..MaxSub
    /\ dt = One
    /\ full_outputs \in BOOLEAN
    /\ AtCall

SpecInputs == InitInputs /\ [][Next]_vars

\* C8 (as claimed): a call without ST_init (and without solutes) completes
\* without error on ST_init = zeros(len(J) + 1): the returned ST is
\* (len(J) + 1) x (len(J) + 1) with a zero first column.
C8_DefaultSTInit ==
    (ST_init = None /\ C_J = None) =>
        /\ err = NoError
        /\ (pc = "done" /\ full_outputs) =>
            /\ ALen(ST) = ALen(J) + 1
            /\ \A a \in DOMAIN ST :
                ALen(ST[a]) = ALen(J) + 1 /\ RIsZero(ST[a][0])

\* the counts of a companion of C_J, tiled as solve tiles it, disagree with
\* the other inputs
alphaDisagrees ==
    alpha # NoArray /\
        (ALen(alpha_tiled[0][0]) # ALen(C_J[0]) \/ ALen(alpha_tiled[0]) # ALen(Q[0]))
k1Disagrees ==
    k1 # NoArray /\
        (ALen(k1_tiled[0]) # ALen(C_J[0]) \/ ALen(k1_tiled) # ALen(J))
C_eqDisagrees ==
    C_eq # NoArray /\
        (ALen(C_eq_tiled[0]) # ALen(C_J[0]) \/ ALen(C_eq_tiled) # ALen(J))
CS_initDisagrees ==
    CS_init # NoArray /\ ST_init # None /\
        (ALen(CS_init_tiled[0]) # ALen(C_J[0]) \/ ALen(CS_init_tiled) # ALen(ST_init))

\* C9 (as claimed): once solve has checked its inputs, a companion array
\* whose solute count or whose outflow count (leading length, for k1, C_eq
\* and CS_init) disagrees has been rejected with a TypeError raised by solve,
\* either mismatch alone sufficing.
C9_RejectsEitherMismatch ==
    (pc # "solve" /\ C_J # None /\
        (alphaDisagrees \/ k1Disagrees \/ C_eqDisagrees \/ CS_initDisagrees)) =>
            err = Raised("TypeError", "solve")

(***************************************************************************)
(* The order of the cdf_i calls.                                           *)
(***************************************************************************)
\* the calls made inside the time loop, in order
LoopQueries == SelectSeq(queries, LAMBDA e : e.kind = "query" /\ e.stage > 0)

\* the p-th call of a time loop that visits (i, k) in lexicographic order and
\* in each substep calls every outflow once per stage, in stage order
ExpectedQuery(p) ==
    [i |-> (p - 1) \div (4 * n_substeps * numflux),
     k |-> ((p - 1) \div (4 * numflux)) % n_substeps,
     stage |-> (((p - 1) \div numflux) % 4) + 1,
     q |-> (p - 1) % numflux]

\* the last storage profile written before entry p of the history
RECURSIVE LastWritten(_)
LastWritten(p) ==
    IF queries[p - 1].kind # "query" THEN queries[p - 1] ELSE LastWritten(p - 1)

\* the array that holds the result of the calls of a stage
StageResult(stage) ==
    CASE stage = 1 -> PQ1 [] stage = 2 -> PQ2 [] stage = 3 -> PQ3 [] stage = 4 -> PQ4

\* C11: the calls of the time loop are, in order, those of (i, k) in
\* lexicographic order, one per outflow and stage, in stage order 1, 2, 3, 4,
\* each with time index i; a call of stage 1 passes the profile last committed
\* (by the final update of the substep before, or by initialization for the
\* first substep); a call of stage m in 2..4 passes the trial profile that
\* stage m-1 of the same substep wrote last; within a substep, the result a
\* stage holds is cdf_i of the profile its call passed; and a finished loop
\* has made 4 * n * n_substeps * numflux calls.
C11_QueryProtocol ==
    (pc \notin {"solve", "_solve_RK4", "raised"}) =>
        /\ LET made == LoopQueries
           IN  \A p \in 1..Len(made) :
                    [i |-> made[p].i, k |-> made[p].k,
                     stage |-> made[p].stage, q |-> made[p].q] = ExpectedQuery(p)
        /\ \A p \in 1..Len(queries) :
                LET e == queries[p]
                    u == LastWritten(p)
                IN  (e.kind = "query" /\ e.stage > 0) =>
                        /\ u.S = e.S
                        /\ e.stage = 1 =>
                            /\ u.kind = "commit"
                            /\ IF e.i = 0 /\ e.k = 0 THEN u.stage = 0
                               ELSE /\ u.stage = 4
                                    /\ u.i * n_substeps + u.k + 1
                                            = e.i * n_substeps + e.k
                        /\ e.stage > 1 =>
                            /\ u.kind = "trial"
                            /\ u.stage = e.stage - 1
                            /\ u.i = e.i /\ u.k = e.k
        /\ \A p \in 1..Len(queries) :
                LET e == queries[p]
                IN  (/\ e.kind = "query" /\ e.stage > 0
                     /\ e.i = i /\ e.k = k
                     /\ pc \in {"K2", "K3", "K4", "final"}) =>
                        LET c == cdf_i(rSAS_fun[e.q], e.S, M, e.i)
                        IN  \A j \in 0..M : StageResult(e.stage)[j][e.q] = c[j]
        /\ pc \in {"return", "done"} =>
                Len(LoopQueries) = 4 * timeseries_length * n_substeps * numflux

\* C11 witness: a finished run of several timesteps, substeps and outflows in
\* which a trial profile passed to stage 2 differed from the profile passed to
\* stage 1 of the same substep.
C11_Witness ==
    /\ pc = "done" /\ timeseries_length > 1 /\ n_substeps > 1 /\ numflux > 1
    /\ \E p, r \in 1..Len(queries) :
        /\ queries[p].kind = "query" /\ queries[r].kind = "query"
        /\ queries[p].stage = 1 /\ queries[r].stage = 2
        /\ queries[p].i = queries[r].i /\ queries[p].k = queries[r].k
        /\ queries[p].S # queries[r].S

(***************************************************************************)
(* The trial storage profile.                                              *)
(***************************************************************************)
\* a trial update of the current substep (stage 1, 2 or 3) has just been made
AfterTrialUpdate == pc \in {"K2", "K3", "K4"}

\* the profile S of M + 1 substep ages is non-negative and non-decreasing
NonNegative(S) == \A j \in 0..M : RLe(Zero, S[j])
NonDecreasing(S) == \A j \in 0..(M - 1) : RLe(S[j], S[j + 1])

\* C12 (as claimed): after each trial update of a substep whose SAS functions
\* meet the contract and whose STp is non-negative and non-decreasing, STt is
\* non-negative at every substep age and non-decreasing in age.
C12_TrialNonNegativeMonotone ==
    (AfterTrialUpdate /\ MeetsContract /\ NonNegative(STp) /\ NonDecreasing(STp)) =>
        (NonNegative(STt) /\ NonDecreasing(STt))

\* C12 (amended): after each trial update of such a substep, STt is
\* non-negative at every substep age (the clamp of lines 381, 396, 411); it
\* need not be non-decreasing in age.
C12_TrialNonNegative ==
    (AfterTrialUpdate /\ MeetsContract /\ NonNegative(STp) /\ NonDecreasing(STp)) =>
        NonNegative(STt)

\* C12 witness: a trial update of stage 1 in which the clamp acted (the
\* unclamped value was negative at some age) and left a profile that
\* decreases in age.
C12_Witness ==
    /\ pc = "K2" /\ MeetsContract /\ NonNegative(STp) /\ NonDecreasing(STp)
    /\ \E j \in 0..M :
        RLt(RAdd(STp[j], HalfStep(RSub(J[i], DotQ(PQ1[j])))), Zero) /\ RIsZero(STt[j])
    /\ ~NonDecreasing(STt)

(***************************************************************************)
(* Calls that differ in the initial condition.                             *)
(***************************************************************************)
\* initial age-ranked storage of m ages: empty, one unit per age, and uneven
\* (0, 1, 3, 6: each age holds more than the one before)
ST_initChoices(m) ==
    STSeries(m) \cup {[a \in 0..m |-> FromInt((a * (a + 1)) \div 2)]}

\* initial concentration in storage for m ages and one solute: left out,
\* constant over the ages (1-D), and rising with age (2-D, m + 1 rows)
CS_initChoices(m) ==
    {NoArray,
     Passed(1, Arr(<<FromInt(2)>>)),
     Passed(2, [a \in 0..m |-> Arr(<<FromInt(a + 1)>>)])}

InitInitial ==
    /\ \E n \in 1..MaxT :
        /\ J = [t \in 0..(n - 1) |-> One]
        /\ Q = Const(n, Floats(<<1>>))
        /\ C_J \in {None, Const(n, Floats(<<1>>))}
    /\ rSAS_fun = [q \in 0..0 |-> "young"]
    /\ \E m \in 1..MaxAge :
        /\ ST_init \in ST_initChoices(m)
        /\ CS_init \in IF C_J = None THEN {NoArray} ELSE CS_initChoices(m)
    /\ n_substeps \in 1..MaxSub
    /\ dt = One
    /\ full_outputs = TRUE
    /\ alpha = NoArray
    /\ k1 = NoArray
    /\ C_eq = NoArray
    /\ C_old = IF C_J = None THEN None ELSE Arr(<<FromInt(3)>>)
    /\ AtCall

SpecInitial == InitInitial /\ [][Next]_vars

\* C13: the first output column is the initial condition: ST[a,0] = ST_init[a]
\* for every age a, and with solutes and CS_init passed,
\* MS[a,0,s] = CS_init[a,s] * ST_init[a] for every age a and solute s (CS_init
\* as solve has tiled it), whatever n_substeps.
C13_InitialRoundTrip ==
    Allocated =>
        /\ \A a \in 0..max_age : ST[a][0] = ST_init[a]
        /\ (numsol > 0 /\ CS_init # NoArray) =>
                \A a \in 0..max_age : \A s \in 0..(numsol - 1) :
                    MS[a][0][s] = RMul(CS_init.a[a][s], ST_init[a])

\* C13 witness: a finished run of several substeps and ages on an uneven
\* ST_init and a CS_init that varies with age.
C13_Witness ==
    /\ pc = "done" /\ Allocated /\ n_substeps > 1 /\ max_age > 1
    /\ RSub(ST[2][0], ST[1][0]) # ST[1][0] /\ RPos(ST[1][0])
    /\ numsol > 0 /\ CS_init # NoArray
    /\ CS_init.a[1][0] # CS_init.a[2][0]
    /\ RPos(MS[1][0][0]) /\ RLt(MS[1][0][0], MS[2][0][0])

=============================================================================
